---------------------------- MODULE Spec2Model ----------------------------
(***************************************************************************)
(* A model of the go-lexer engine: the scanning cursor over a UTF-8        *)
(* source (sourcetext.go), the rune-level operations of L (Next, Peek,     *)
(* Rewind, Take, Accept, CanTake, Ignore, Emit), the driver loop run() and *)
(* the token channel between the driver and the consumer (NextToken).     *)
(*                                                                         *)
(* Bytes are the integers 0..255, a string is a sequence of bytes, a rune  *)
(* is an integer.  Offsets are 0-based as in Go; the TLA+ sequence index   *)
(* of byte offset i is i + 1.                                              *)
(***************************************************************************)
EXTENDS Integers, Sequences, FiniteSets, TLC

(***************************************************************************)
(* Bounds of the model.                                                    *)
(***************************************************************************)
\* longest source text of the exhaustive cursor specification, in bytes
MaxLen == 3
\* how many entries beyond one per source byte the rewind stack may hold
\* (Next pushes one entry per call, also at end of input)
MaxEOF == 1
\* most tokens emitted in one run
MaxEmit == 2
\* most calls of Error in one run
MaxErr == 2
\* longest source text PrettyError is called on, in bytes
MaxText == 8

\* The bytes a source of SpecCursor is made of: 'a', the two bytes of U+00E9
\* (0xC3 0xA9) and 0xFF, which is never valid in UTF-8.
Bytes == {97, 195, 169, 255}

RECURSIVE SeqsUpTo(_, _)
SeqsUpTo(S, n) ==
  IF n = 0 THEN {<<>>}
  ELSE LET shorter == SeqsUpTo(S, n - 1)
       IN  shorter \cup {Append(s, b) : s \in {x \in shorter : Len(x) = n - 1}, b \in S}

\* Every source of at most MaxLen bytes: the inputs of SpecCursor.
Sources == SeqsUpTo(Bytes, MaxLen)

\* The sources the whole engine is run on, in Spec: "", "a\xff", "\u00e9\n"
\* and "\u00e9\u00e9" (the one long enough for a channel of capacity 2).
RunSources ==
  {<<>>, <<97, 255>>, <<195, 169, 10>>, <<195, 169, 195, 169>>}

\* The `chars` arguments tried for Take and CanTake: "", "a", "a\xc3\xa9", "\xff".
CharSets == {<<>>, <<97>>, <<97, 195, 169>>, <<255>>}

\* The literals tried for Accept: "", "a", "\xc3\xa9", "a\xff", "\n".
Literals == {<<>>, <<97>>, <<195, 169>>, <<97, 255>>, <<10>>}

\* The token types the state functions emit.
TokenTypes == {1, 2}

\* The sources the engine is run on with calls of Error, in SpecErr: "1" (the
\* source of Test_LexerError), "a\na" and "\u00e9\n".
ErrSources ==
  {<<49>>, <<97, 10, 97>>, <<195, 169, 10>>}

\* The sources of SpecLive: "", "1" and "a\naa" (a channel of capacity 2).
LiveSources == {<<>>, <<49>>, <<97, 10, 97, 97>>}

\* The sources of SpecCommit: "", "\u00e9a" and "aa\xff".
CommitSources == {<<>>, <<195, 169, 97>>, <<97, 97, 255>>}

\* The messages passed to Error and PrettyError.
Msgs == {"unexpected token", "bad rune"}

\* Every text of at most MaxText bytes made of 'a' and "\n": the sources of
\* SpecPretty.
Texts == SeqsUpTo({10, 97}, MaxText)

(***************************************************************************)
(* Program constants.                                                      *)
(***************************************************************************)
EOFRune == -1

\* utf8.RuneError, U+FFFD
RuneError == 65533

(***************************************************************************)
(* unicode/utf8 and strings, as the engine calls them.                     *)
(***************************************************************************)

\* utf8.DecodeRuneInString(s) for a non-empty s: <<rune, width>>.
DecodeRuneInString(s) ==
  LET n  == Len(s)
      s0 == s[1]
  IN  IF s0 < 128 THEN <<s0, 1>>
      ELSE IF s0 < 194 \/ s0 > 244 THEN <<RuneError, 1>>
      ELSE
        LET sz == IF s0 < 224 THEN 2 ELSE IF s0 < 240 THEN 3 ELSE 4
            lo == IF s0 = 224 THEN 160 ELSE IF s0 = 240 THEN 144 ELSE 128
            hi == IF s0 = 237 THEN 159 ELSE IF s0 = 244 THEN 143 ELSE 191
        IN  IF n < sz THEN <<RuneError, 1>>
            ELSE IF s[2] < lo \/ hi < s[2] THEN <<RuneError, 1>>
            ELSE IF sz = 2 THEN <<(s0 % 32) * 64 + (s[2] % 64), 2>>
            ELSE IF s[3] < 128 \/ 191 < s[3] THEN <<RuneError, 1>>
            ELSE IF sz = 3
              THEN <<(s0 % 16) * 4096 + (s[2] % 64) * 64 + (s[3] % 64), 3>>
            ELSE IF s[4] < 128 \/ 191 < s[4] THEN <<RuneError, 1>>
            ELSE <<(s0 % 8) * 262144 + (s[2] % 64) * 4096
                     + (s[3] % 64) * 64 + (s[4] % 64), 4>>

\* utf8.RuneLen(r): the bytes needed to encode r, -1 if r cannot be encoded.
RuneLen(r) ==
  IF r < 0 THEN -1
  ELSE IF r <= 127 THEN 1
  ELSE IF r <= 2047 THEN 2
  ELSE IF 55296 <= r /\ r <= 57343 THEN -1
  ELSE IF r <= 65535 THEN 3
  ELSE IF r <= 1114111 THEN 4
  ELSE -1

\* string(r) for a rune that can be encoded.
EncodeRune(r) ==
  IF r <= 127 THEN <<r>>
  ELSE IF r <= 2047 THEN <<192 + (r \div 64), 128 + (r % 64)>>
  ELSE IF r <= 65535
    THEN <<224 + (r \div 4096), 128 + ((r \div 64) % 64), 128 + (r % 64)>>
  ELSE <<240 + (r \div 262144), 128 + ((r \div 4096) % 64),
         128 + ((r \div 64) % 64), 128 + (r % 64)>>

\* The runes `for _, r := range s` yields.
RECURSIVE RangeRunes(_)
RangeRunes(s) ==
  IF Len(s) = 0 THEN <<>>
  ELSE LET d == DecodeRuneInString(s)
       IN  <<d[1]>> \o RangeRunes(SubSeq(s, d[2] + 1, Len(s)))

\* strings.HasPrefix(s, prefix)
HasPrefix(s, prefix) ==
  Len(s) >= Len(prefix) /\ SubSeq(s, 1, Len(prefix)) = prefix

\* strings.Index(s, sub) >= 0
ContainsStr(s, sub) ==
  \E i \in 0..Len(s) : HasPrefix(SubSeq(s, i + 1, Len(s)), sub)

\* strings.ContainsRune(chars, r), that is strings.IndexRune(chars, r) >= 0.
ContainsRune(chars, r) ==
  IF 0 <= r /\ r < 128 THEN \E i \in 1..Len(chars) : chars[i] = r
  ELSE IF r = RuneError
    THEN \E i \in 1..Len(RangeRunes(chars)) : RangeRunes(chars)[i] = RuneError
  ELSE IF RuneLen(r) = -1 THEN FALSE
  ELSE ContainsStr(chars, EncodeRune(r))

(***************************************************************************)
(* State.                                                                  *)
(***************************************************************************)
VARIABLES
  source,    \* sourcetext.source: the bytes of the source text
  pos,       \* sourcetext.pos
  start,     \* sourcetext.start
  rewind,    \* L.rewind: the rune stack, most recent entry last
  tokens,    \* L.tokens: the tokens buffered in the channel, oldest first
  closed,    \* whether L.tokens has been closed
  mode,      \* "none" (L.tokens is nil), "async" (Start) or "sync" (StartSync)
  pc,        \* where the scanning thread is: "new", "run", "send", "closed", "panic"
  pending,   \* the token Emit is sending, while pc = "send"
  received,  \* the tokens NextToken has returned to the consumer so far
  nt,        \* what the last NextToken call returned
  emitted,   \* history: the tokens of the completed Emit calls, in order
  op,        \* the last cursor operation that returned, with its result
  trail,     \* history: the current run of consecutive Next and Rewind calls
  Err,       \* L.Err: <<>> for nil, else <<the text of the error>>
  ErrorHandler, \* whether a hook is registered in L.ErrorHandler
  handled,   \* history: the calls of the hook (its argument, and how many
             \* Emit calls had completed)
  printed,   \* what the last PrettyError call returned, line by line
  commits    \* history, kept in SpecCommit: the text the Emit and Ignore
             \* calls committed, and the [start, pos) of each token emitted

\* the part of the state the error reporting of L writes
errVars == <<Err, ErrorHandler, handled, printed>>

vars == <<source, pos, start, rewind, tokens, closed, mode, pc, pending,
          received, nt, emitted, op, trail, Err, ErrorHandler, handled, printed,
          commits>>

\* The cursor of the engine as one value.
Cur == [pos |-> pos, start |-> start, rewind |-> rewind]

(***************************************************************************)
(* runeStack.  Its code is not part of the sources at hand; it is modelled *)
(* from section 4.2 of the specification: push appends, pop removes and    *)
(* returns the most recent entry or a "none" sentinel when empty, clear    *)
(* empties.  The sentinel is EOFRune, the one sentinel rune of the engine. *)
(***************************************************************************)
newRuneStack == <<>>

push(stk, r) == Append(stk, r)

pop(stk) ==
  IF Len(stk) = 0 THEN [r |-> EOFRune, stk |-> stk]
  ELSE [r |-> stk[Len(stk)], stk |-> SubSeq(stk, 1, Len(stk) - 1)]

clear(stk) == <<>>

(***************************************************************************)
(* sourcetext.                                                             *)
(***************************************************************************)
\* Go's bounds check of source[lo:hi]; a failed check panics.
SliceOK(lo, hi) == 0 <= lo /\ lo <= hi /\ hi <= Len(source)

\* source[s.pos:]
fromHere(c) == SubSeq(source, c.pos + 1, Len(source))

\* source[:s.pos]
untilHere(c) == SubSeq(source, 1, c.pos)

\* current as untilHere(): source[:s.pos]
current_fromZero(c) == SubSeq(source, 1, c.pos)

\* source[s.start:s.pos]
current(c) == SubSeq(source, c.start + 1, c.pos)

\* advance as inc() for every rune read: one byte whatever its width
advance_oneByte(c, by) == [c EXCEPT !.pos = c.pos + (IF by > 1 THEN 1 ELSE by)]

advance(c, by) == [c EXCEPT !.pos = c.pos + by]

update(c) == [c EXCEPT !.start = c.pos]

\* sourcetext.rewind(r)
st_rewind(c, r) ==
  LET size == RuneLen(r)
      d    == [c EXCEPT !.pos = c.pos - size]
  IN  IF d.pos < d.start THEN update(d) ELSE d

(***************************************************************************)
(* The cursor operations of L, as functions of the cursor.                 *)
(***************************************************************************)
\* Next without the test for the end of input: DecodeRuneInString("") is
\* (RuneError, 0).
Next_noEOFTest(c) ==
  LET str == fromHere(c)
      d   == IF Len(str) = 0 THEN <<RuneError, 0>> ELSE DecodeRuneInString(str)
      c1  == advance(c, d[2])
  IN  [c |-> [c1 EXCEPT !.rewind = push(c1.rewind, d[1])], r |-> d[1]]

\* L.Next: the cursor after the call and the rune returned.
Next(c) ==
  LET str == fromHere(c)
      d   == IF Len(str) = 0 THEN <<EOFRune, 0>> ELSE DecodeRuneInString(str)
      c1  == advance(c, d[2])
  IN  [c |-> [c1 EXCEPT !.rewind = push(c1.rewind, d[1])], r |-> d[1]]

\* Rewind with r >= EOFRune for r > EOFRune
Rewind_retractsSentinel(c) ==
  LET p  == pop(c.rewind)
      c1 == [c EXCEPT !.rewind = p.stk]
  IN  IF p.r >= EOFRune THEN st_rewind(c1, p.r) ELSE c1

\* L.Rewind
Rewind(c) ==
  LET p  == pop(c.rewind)
      c1 == [c EXCEPT !.rewind = p.stk]
  IN  IF p.r > EOFRune THEN st_rewind(c1, p.r) ELSE c1

\* L.Peek
Peek(c) ==
  LET n == Next(c)
  IN  [c |-> Rewind(n.c), r |-> n.r]

\* The loop of Take reading one more rune after the first that is no member
RECURSIVE TakeLoop_oneMore(_, _)
TakeLoop_oneMore(n, chars) ==
  IF ContainsRune(chars, n.r) THEN TakeLoop_oneMore(Next(n.c), chars)
  ELSE Next(n.c).c

\* The loop of L.Take: n is the result of the last Next.
RECURSIVE TakeLoop(_, _)
TakeLoop(n, chars) ==
  IF ContainsRune(chars, n.r) THEN TakeLoop(Next(n.c), chars) ELSE n.c

\* L.Take
Take(c, chars) == Rewind(TakeLoop(Next(c), chars))

\* Accept with the arguments of HasPrefix exchanged
Accept_swapped(c, chars) == HasPrefix(chars, fromHere(c))

\* L.Accept
Accept(c, chars) == HasPrefix(fromHere(c), chars)

\* L.CanTake
CanTake(c, chars) ==
  LET p == Peek(c)
  IN  [c |-> p.c, b |-> ContainsRune(chars, p.r)]

\* Ignore without the clear of the rune stack
Ignore_keepsStack(c) == update(c)

\* L.Ignore
Ignore(c) == update([c EXCEPT !.rewind = clear(c.rewind)])

\* buffSize without the halving: the length of the source, at least 1
buffSize_notHalved ==
  IF Len(source) <= 0 THEN 1 ELSE Len(source)

\* The capacity of the channel Start and StartSync make.
buffSize ==
  LET half == Len(source) \div 2
  IN  IF half <= 0 THEN 1 ELSE half

(***************************************************************************)
(* Line and column of the cursor, and the lines around it.                 *)
(***************************************************************************)
\* strings.Count(s, "\n")
Count(s) == Cardinality({i \in 1..Len(s) : s[i] = 10})

\* strings.LastIndex(s, "\n"): the 0-based offset of the last "\n", or -1
LastIndex(s) ==
  LET at == {i \in 1..Len(s) : s[i] = 10}
  IN  IF at = {} THEN -1 ELSE (CHOOSE i \in at : \A j \in at : j <= i) - 1

\* strings.Split(s, "\n")
RECURSIVE Split(_)
Split(s) ==
  LET at == {i \in 1..Len(s) : s[i] = 10}
  IN  IF at = {} THEN <<s>>
      ELSE LET i == CHOOSE k \in at : \A j \in at : k <= j
           IN  <<SubSeq(s, 1, i - 1)>> \o Split(SubSeq(s, i + 1, Len(s)))

\* sourcetext.lines
lines == Split(source)

clamp(num, min, max) ==
  IF min > max THEN 0
  ELSE IF num < min THEN min
  ELSE IF num > max THEN max
  ELSE num

\* sourcetext.getPos: <<linenum, posInLine>>
getPos(c) ==
  LET untilNow         == untilHere(c)
      linenum          == Count(untilNow) + 1
      lastNewLineIndex == clamp(LastIndex(untilNow), 0, c.pos)
      posInLine        == c.pos - lastNewLineIndex
  IN  <<linenum, posInLine>>

\* Go's lines[lo:hi]
Slice(ls, lo, hi) == SubSeq(ls, lo + 1, hi)

\* getContext with l - 2 for l - 3
getContext_twoBefore(l) ==
  LET beforeStart == clamp(l - 2, 0, Len(lines))
      beforeEnd   == clamp(l, beforeStart, l)
      afterStart  == clamp(l + 1, 0, Len(lines))
      afterEnd    == clamp(l + 4, afterStart, Len(lines))
  IN  [before      |-> IF l = beforeStart THEN <<>>
                       ELSE Slice(lines, beforeStart, beforeEnd),
       line        |-> lines[l + 1],
       after       |-> IF l = afterEnd THEN <<>>
                       ELSE Slice(lines, afterStart, afterEnd),
       beforeStart |-> beforeStart,
       afterStart  |-> afterStart]

\* sourcetext.getContext(l), l the 0-based index of a line
getContext(l) ==
  LET beforeStart == clamp(l - 3, 0, Len(lines))
      beforeEnd   == clamp(l, beforeStart, l)
      afterStart  == clamp(l + 1, 0, Len(lines))
      afterEnd    == clamp(l + 4, afterStart, Len(lines))
  IN  [before      |-> IF l = beforeStart THEN <<>>
                       ELSE Slice(lines, beforeStart, beforeEnd),
       line        |-> lines[l + 1],
       after       |-> IF l = afterEnd THEN <<>>
                       ELSE Slice(lines, afterStart, afterEnd),
       beforeStart |-> beforeStart,
       afterStart  |-> afterStart]

\* Errorf with the two numbers exchanged
Errorf_swapped(linenum, p, e) ==
  "lexer (pos=" \o ToString(p) \o "," \o ToString(linenum) \o "): " \o e

\* fmt.Errorf("lexer (pos=%d,%d): %v", linenum, pos, e)
Errorf(linenum, p, e) ==
  "lexer (pos=" \o ToString(linenum) \o "," \o ToString(p) \o "): " \o e

\* One line of what PrettyError returns: "lexer: %4d: %s\n" with the number i
\* and the text l of a source line ...
SourceLine(i, l) == [caret |-> FALSE, n |-> i, text |-> l, e |-> ""]

\* ... and "lexer:     :%s^ %s\n" with p spaces before the caret.
CaretLine(p, e) == [caret |-> TRUE, n |-> p, text |-> <<>>, e |-> e]

\* L.PrettyError(e): the lines written to the builder, in order
PrettyError(c, e) ==
  LET p   == getPos(c)
      ctx == getContext(p[1] - 1)
  IN  [k \in 1..Len(ctx.before) |-> SourceLine(ctx.beforeStart + k, ctx.before[k])]
      \o <<SourceLine(p[1], ctx.line), CaretLine(p[2], e)>>
      \o [k \in 1..Len(ctx.after) |-> SourceLine(ctx.afterStart + k, ctx.after[k])]

(***************************************************************************)
(* History kept for the properties: which operation returned last (for a   *)
(* Rewind, b tells whether it found the stack empty), and the run of       *)
(* consecutive Next calls (the position before each, the rune each         *)
(* returned) with the number of Rewind calls that followed them.           *)
(***************************************************************************)
NoOp == [name |-> "", chars |-> <<>>, t |-> 0, r |-> 0, b |-> FALSE]

Did(name, chars, t, r, b) ==
  [name |-> name, chars |-> chars, t |-> t, r |-> r, b |-> b]

NoTrail == [ps |-> <<>>, rs |-> <<>>, m |-> 0, commit |-> FALSE]

\* the trail after a Next that returned r
TrailNext(r) ==
  IF Len(trail.ps) > 0 /\ trail.m = 0
    THEN [trail EXCEPT !.ps = Append(@, pos), !.rs = Append(@, r)]
    ELSE [ps |-> <<pos>>, rs |-> <<r>>, m |-> 0,
          commit |-> (start = pos /\ rewind = <<>>)]

\* The history of commits is kept in SpecCommit only.
Commits(on) == [on |-> on, text |-> <<>>, spans |-> <<>>]

\* the commits after an Emit (token) or an Ignore of source[start:pos]; the
\* text is kept as long as it is the source up to start
Commit(token) ==
  IF ~commits.on THEN commits
  ELSE [on    |-> TRUE,
        text  |-> IF commits.text = SubSeq(source, 1, start)
                    THEN commits.text \o SubSeq(source, start + 1, pos)
                    ELSE commits.text,
        spans |-> IF token THEN Append(commits.spans, <<start, pos>>)
                  ELSE commits.spans]

\* the trail after a Rewind
TrailRewind ==
  IF trail.m < Len(trail.ps) THEN [trail EXCEPT !.m = @ + 1] ELSE NoTrail

(***************************************************************************)
(* Init: the engine New(src, start) returns, and whether its caller then    *)
(* registers a hook in ErrorHandler.  No channel exists yet.               *)
(***************************************************************************)
New(srcs, hooks) ==
  /\ source \in srcs
  /\ ErrorHandler \in hooks
  /\ Err = <<>>
  /\ handled = <<>>
  /\ printed = <<>>
  /\ pos = 0
  /\ start = 0
  /\ rewind = newRuneStack
  /\ tokens = <<>>
  /\ closed = FALSE
  /\ mode = "none"
  /\ pc = "new"
  /\ pending = <<>>
  /\ received = <<>>
  /\ nt = [tok |-> <<>>, isDone |-> FALSE]
  /\ emitted = <<>>
  /\ op = NoOp
  /\ trail = NoTrail

(***************************************************************************)
(* Who calls the cursor operations: the caller of New before the engine is *)
(* started, the state functions while the driver runs.                     *)
(***************************************************************************)
\* state functions still running once run has closed the channel
CanCall_afterClose == pc \in {"new", "run", "closed"}

CanCall == pc \in {"new", "run"}

\* The bound on the depth of the rewind stack.
StackRoom == Len(source) + MaxEOF

SetCursor(c) ==
  /\ pos' = c.pos
  /\ start' = c.start
  /\ rewind' = c.rewind

\* A slice expression out of range: the goroutine panics and the process dies.
Panic ==
  /\ pc' = "panic"
  /\ UNCHANGED <<pos, start, rewind, op, trail>>

\* L.Start
Start ==
  /\ pc = "new"
  /\ mode' = "async"
  /\ tokens' = <<>>
  /\ pc' = "run"
  /\ UNCHANGED <<errVars, commits, source, pos, start, rewind, closed, pending, received, nt,
                 emitted, op, trail>>

\* L.StartSync, up to the call of run on the caller's thread
StartSync ==
  /\ pc = "new"
  /\ mode' = "sync"
  /\ tokens' = <<>>
  /\ pc' = "run"
  /\ UNCHANGED <<errVars, commits, source, pos, start, rewind, closed, pending, received, nt,
                 emitted, op, trail>>

\* run closing the channel while the state functions still run
run_beforeLoopEnds ==
  /\ pc = "run"
  /\ ~closed
  /\ closed' = TRUE
  /\ UNCHANGED <<errVars, commits, source, pos, start, rewind, tokens, mode, pc, pending,
                 received, nt, emitted, op, trail>>

\* run without close(l.tokens)
run_neverCloses ==
  /\ pc = "run"
  /\ pc' = "closed"
  /\ UNCHANGED <<errVars, commits, source, pos, start, rewind, tokens, closed, mode,
                 pending, received, nt, emitted, op, trail>>

\* L.run: the current state function returned nil, the loop ends and the
\* channel is closed.
run ==
  /\ pc = "run"
  /\ closed' = TRUE
  /\ pc' = "closed"
  /\ UNCHANGED <<errVars, commits, source, pos, start, rewind, tokens, mode, pending, received,
                 nt, emitted, op, trail>>

CallNext ==
  /\ CanCall
  /\ Len(rewind) < StackRoom
  /\ IF SliceOK(pos, Len(source))
       THEN LET n == Next(Cur)
            IN  /\ SetCursor(n.c)
                /\ op' = Did("Next", <<>>, 0, n.r, FALSE)
                /\ trail' = TrailNext(n.r)
                /\ pc' = pc
       ELSE Panic
  /\ UNCHANGED <<errVars, commits, source, tokens, closed, mode, pending, received, nt, emitted>>

CallRewind ==
  /\ CanCall
  /\ SetCursor(Rewind(Cur))
  /\ op' = Did("Rewind", <<>>, 0, 0, rewind = <<>>)
  /\ trail' = TrailRewind
  /\ UNCHANGED <<errVars, commits, source, tokens, closed, mode, pc, pending, received, nt, emitted>>

CallPeek ==
  /\ CanCall
  /\ Len(rewind) < StackRoom
  /\ IF SliceOK(pos, Len(source))
       THEN LET p == Peek(Cur)
            IN  /\ SetCursor(p.c)
                /\ op' = Did("Peek", <<>>, 0, p.r, FALSE)
                /\ trail' = NoTrail
                /\ pc' = pc
       ELSE Panic
  /\ UNCHANGED <<errVars, commits, source, tokens, closed, mode, pending, received, nt, emitted>>

CallTake ==
  /\ CanCall
  /\ Len(rewind) + (Len(source) - pos) < StackRoom
  /\ \E chars \in CharSets :
       IF SliceOK(pos, Len(source))
         THEN /\ SetCursor(Take(Cur, chars))
              /\ op' = Did("Take", chars, 0, 0, FALSE)
              /\ trail' = NoTrail
              /\ pc' = pc
         ELSE Panic
  /\ UNCHANGED <<errVars, commits, source, tokens, closed, mode, pending, received, nt, emitted>>

CallAccept ==
  /\ CanCall
  /\ \E chars \in Literals :
       IF SliceOK(pos, Len(source))
         THEN /\ op' = Did("Accept", chars, 0, 0, Accept(Cur, chars))
              /\ trail' = NoTrail
              /\ UNCHANGED <<pos, start, rewind, pc>>
         ELSE Panic
  /\ UNCHANGED <<errVars, commits, source, tokens, closed, mode, pending, received, nt, emitted>>

CallCanTake ==
  /\ CanCall
  /\ Len(rewind) < StackRoom
  /\ \E chars \in CharSets :
       IF SliceOK(pos, Len(source))
         THEN LET p == CanTake(Cur, chars)
              IN  /\ SetCursor(p.c)
                  /\ op' = Did("CanTake", chars, 0, 0, p.b)
                  /\ trail' = NoTrail
                  /\ pc' = pc
         ELSE Panic
  /\ UNCHANGED <<errVars, commits, source, tokens, closed, mode, pending, received, nt, emitted>>

CallIgnore ==
  /\ CanCall
  /\ SetCursor(Ignore(Cur))
  /\ op' = Did("Ignore", <<>>, 0, 0, FALSE)
  /\ trail' = NoTrail
  /\ commits' = Commit(FALSE)
  /\ UNCHANGED <<errVars, source, tokens, closed, mode, pc, pending, received, nt, emitted>>

\* L.Emit up to the channel send: the token is built from Current().
CallEmit ==
  /\ CanCall
  /\ Len(emitted) < MaxEmit
  /\ \E t \in TokenTypes :
       IF SliceOK(start, pos)
         THEN /\ pending' = <<[type |-> t, value |-> current(Cur)]>>
              /\ pc' = "send"
              /\ UNCHANGED <<pos, start, rewind, op, trail>>
         ELSE /\ Panic
              /\ UNCHANGED pending
  /\ UNCHANGED <<errVars, commits, source, tokens, closed, mode, received, nt, emitted>>

\* L.Emit from the channel send on: the send completes once the channel has
\* room (never on a nil channel), then the cursor commits.
EmitSend ==
  /\ pc = "send"
  /\ mode # "none"
  /\ Len(tokens) < buffSize
  /\ tokens' = Append(tokens, pending[1])
  /\ emitted' = Append(emitted, pending[1])
  /\ SetCursor([update(Cur) EXCEPT !.rewind = clear(rewind)])
  /\ op' = Did("Emit", pending[1].value, pending[1].type, 0, FALSE)
  /\ trail' = NoTrail
  /\ pending' = <<>>
  /\ pc' = "run"
  /\ commits' = Commit(TRUE)
  /\ UNCHANGED <<errVars, source, closed, mode, received, nt>>

\* a receive that does not wait: done whenever nothing is buffered
Drained_notWaiting == Len(tokens) = 0

\* `tok, ok := <-l.tokens` yields ok = false: nothing buffered, channel closed.
Drained == Len(tokens) = 0 /\ closed

\* L.NextToken, called by the consumer: at once in the asynchronous mode,
\* after StartSync has returned in the synchronous one.  A receive blocks
\* while the channel is empty and open.
NextToken ==
  /\ \/ mode = "async" /\ pc # "panic"
     \/ mode = "sync" /\ pc = "closed"
  /\ \/ /\ Len(tokens) > 0
        /\ tokens' = Tail(tokens)
        /\ received' = Append(received, Head(tokens))
        /\ nt' = [tok |-> <<Head(tokens)>>, isDone |-> FALSE]
     \/ /\ Drained
        /\ nt' = [tok |-> <<>>, isDone |-> TRUE]
        /\ UNCHANGED <<tokens, received>>
  /\ UNCHANGED <<errVars, commits, source, pos, start, rewind, closed, mode, pc, pending,
                 emitted, op, trail>>

\* Error ending the run: the loop is left and the channel closed
CallError_stops ==
  /\ CanCall
  /\ Len(handled) < MaxErr
  /\ \E e \in Msgs :
       IF ErrorHandler /\ SliceOK(0, pos)
         THEN LET p == getPos(Cur)
              IN  /\ Err' = <<Errorf(p[1], p[2], e)>>
                  /\ handled' = Append(handled, [e |-> e, emitted |-> Len(emitted)])
                  /\ pc' = "closed"
                  /\ closed' = TRUE
                  /\ UNCHANGED <<pos, start, rewind, op, trail>>
         ELSE /\ Panic
              /\ UNCHANGED <<Err, handled, closed>>
  /\ UNCHANGED <<commits, source, tokens, mode, pending, received, nt, emitted,
                 ErrorHandler, printed>>

\* L.Error(e): with a hook, Err is set and the hook runs on the calling
\* thread; without one the call panics.
CallError ==
  /\ CanCall
  /\ Len(handled) < MaxErr
  /\ \E e \in Msgs :
       IF ErrorHandler /\ SliceOK(0, pos)
         THEN LET p == getPos(Cur)
              IN  /\ Err' = <<Errorf(p[1], p[2], e)>>
                  /\ handled' = Append(handled, [e |-> e, emitted |-> Len(emitted)])
                  /\ UNCHANGED <<pos, start, rewind, op, trail, pc>>
         ELSE /\ Panic
              /\ UNCHANGED <<Err, handled>>
  /\ UNCHANGED <<commits, source, tokens, closed, mode, pending, received, nt, emitted,
                 ErrorHandler, printed>>

\* L.PrettyError(e)
CallPrettyError ==
  /\ CanCall
  /\ \E e \in Msgs :
       IF SliceOK(0, pos)
         THEN /\ printed' = PrettyError(Cur, e)
              /\ UNCHANGED <<pos, start, rewind, op, trail, pc>>
         ELSE /\ Panic
              /\ UNCHANGED printed
  /\ UNCHANGED <<commits, source, tokens, closed, mode, pending, received, nt, emitted,
                 Err, ErrorHandler, handled>>

Step ==
  \/ Start
  \/ StartSync
  \/ run
  \/ CallNext
  \/ CallRewind
  \/ CallPeek
  \/ CallTake
  \/ CallAccept
  \/ CallCanTake
  \/ CallIgnore
  \/ CallEmit
  \/ EmitSend
  \/ NextToken

Init == New(RunSources, {FALSE}) /\ commits = Commits(FALSE)

\* The whole engine on the sources of RunSources.
Spec == Init /\ [][Step]_vars

\* The cursor of a new engine driven by its caller, as the tests of Next and
\* Rewind do, on every source of at most MaxLen bytes.  No channel exists:
\* an Emit never gets past its send.
InitCursor == New(Sources, {FALSE}) /\ commits = Commits(FALSE)

StepCursor ==
  \/ CallNext
  \/ CallRewind
  \/ CallPeek
  \/ CallTake
  \/ CallAccept
  \/ CallCanTake
  \/ CallIgnore
  \/ CallEmit

SpecCursor == InitCursor /\ [][StepCursor]_vars

\* The engine run by state functions that read, emit and report errors, as
\* the state functions of the tests do, with and without a hook.
InitErr == New(ErrSources, BOOLEAN) /\ commits = Commits(FALSE)

StepErr ==
  \/ Start
  \/ run
  \/ CallNext
  \/ CallEmit
  \/ EmitSend
  \/ NextToken
  \/ CallError

SpecErr == InitErr /\ [][StepErr]_vars

\* The asynchronous engine, run by state functions that read and emit,
\* under a fair schedule: a send into a channel with room completes, the
\* consumer keeps calling NextToken, and the state functions do not run for
\* ever (the one that is running returns nil at some point).
InitLive == New(LiveSources, {FALSE}) /\ commits = Commits(FALSE)

StepLive ==
  \/ Start
  \/ run
  \/ CallNext
  \/ CallEmit
  \/ EmitSend
  \/ NextToken

SpecLive ==
  /\ InitLive
  /\ [][StepLive]_vars
  /\ WF_vars(EmitSend)
  /\ WF_vars(NextToken)
  /\ WF_vars(run)

\* PrettyError called at every offset a run of Next calls reaches, on every
\* text of at most MaxText bytes.
InitPretty == New(Texts, {TRUE}) /\ commits = Commits(FALSE)

StepPretty ==
  \/ CallNext
  \/ CallPrettyError

SpecPretty == InitPretty /\ [][StepPretty]_vars

\* The asynchronous engine run by state functions that read, step back,
\* ignore and emit, with the history of what they commit.
InitCommit == New(CommitSources, {FALSE}) /\ commits = Commits(TRUE)

StepCommit ==
  \/ Start
  \/ run
  \/ CallNext
  \/ CallRewind
  \/ CallIgnore
  \/ CallEmit
  \/ EmitSend
  \/ NextToken

SpecCommit == InitCommit /\ [][StepCommit]_vars


(***************************************************************************)
(* What the properties are stated with.                                    *)
(***************************************************************************)
\* The rune at byte offset p of the source, EOFRune at the end of input.
RuneAt(p) ==
  IF p = Len(source) THEN EOFRune
  ELSE DecodeRuneInString(SubSeq(source, p + 1, Len(source)))[1]

\* The byte width of the rune at offset p, 0 at the end of input.
WidthAt(p) ==
  IF p = Len(source) THEN 0
  ELSE DecodeRuneInString(SubSeq(source, p + 1, Len(source)))[2]

\* Whether the source from offset p on is valid UTF-8.
RECURSIVE ValidFrom(_)
ValidFrom(p) ==
  \/ p >= Len(source)
  \/ /\ DecodeRuneInString(SubSeq(source, p + 1, Len(source))) # <<RuneError, 1>>
     /\ ValidFrom(p + WidthAt(p))

ValidSource == ValidFrom(0)

\* The number of bytes of the UTF-8 encoding of rune r; none for EOFRune.
RuneWidth(r) ==
  IF r < 0 THEN 0
  ELSE IF r < 128 THEN 1
  ELSE IF r < 2048 THEN 2
  ELSE IF r < 65536 THEN 3
  ELSE 4

\* The bytes the runes of a rune stack take in the source.
RECURSIVE StackWidth(_)
StackWidth(stk) ==
  IF Len(stk) = 0 THEN 0 ELSE RuneWidth(Head(stk)) + StackWidth(Tail(stk))

\* The cursor c after k calls of Rewind.
RECURSIVE RewindTimes(_, _)
RewindTimes(c, k) == IF k = 0 THEN c ELSE RewindTimes(Rewind(c), k - 1)

\* The number of runes from offset p to the end of the source.
RECURSIVE UnreadRunes(_)
UnreadRunes(p) ==
  IF p >= Len(source) THEN 0 ELSE 1 + UnreadRunes(p + WidthAt(p))

\* The offset after the k runes that start at offset p (fewer when the
\* input ends first).
RECURSIVE RunEnd(_, _)
RunEnd(p, k) ==
  IF k = 0 \/ p = Len(source) THEN p ELSE RunEnd(p + WidthAt(p), k - 1)

\* The offset after the longest run of members of chars that starts at p.
RECURSIVE MemberRunEnd(_, _)
MemberRunEnd(p, chars) ==
  IF p = Len(source) \/ ~ContainsRune(chars, RuneAt(p)) THEN p
  ELSE MemberRunEnd(p + WidthAt(p), chars)

\* The bytes of the runes of rs, one after the other; EOFRune has none.
RECURSIVE Encoded(_)
Encoded(rs) ==
  IF Len(rs) = 0 THEN <<>>
  ELSE (IF Head(rs) = EOFRune THEN <<>> ELSE EncodeRune(Head(rs)))
         \o Encoded(Tail(rs))

\* literal is what the unread text source[p:] begins with
BeginsWith(p, literal) ==
  \A i \in 1..Len(literal) :
     p + i <= Len(source) /\ source[p + i] = literal[i]

\* A run of Next calls that began at a commit point, with no Rewind since.
PureRun == trail.commit /\ trail.m = 0 /\ Len(trail.ps) > 0

(***************************************************************************)
(* C1.  In every state reachable from New by the cursor operations,        *)
(* 0 <= start <= position <= len(source), also on sources that are not     *)
(* valid UTF-8.                                                            *)
(***************************************************************************)
C1_CursorInRange == 0 <= start /\ start <= pos /\ pos <= Len(source)

(***************************************************************************)
(* C2.  Rewind undoes Next: after N consecutive Next calls followed by N   *)
(* Rewind calls, position is where it was before the first of those N      *)
(* Next calls.  Stated for every N at once: after m Rewind calls that      *)
(* follow a run of Next calls, position is where it was before the m-th    *)
(* last Next of the run.                                                   *)
(***************************************************************************)
C2_RewindUndoesNext ==
  trail.m > 0 => pos = trail.ps[Len(trail.ps) - trail.m + 1]

C4_TakeMaximalRun ==
  [][(CallTake /\ pc' # "panic")
       => /\ pos' = MemberRunEnd(pos, op'.chars)
          /\ start' = start
          /\ ~ContainsRune(op'.chars, RuneAt(pos'))]_vars

(***************************************************************************)
(* C5.  Peek and CanTake are read-only: position, start and the rewind     *)
(* stack are after the call what they were before it; Peek returns the     *)
(* rune Next would return, and CanTake(set) is true exactly when that rune *)
(* is a member of set.                                                     *)
(***************************************************************************)
C5_PeekCanTakeReadOnly ==
  [][/\ (CallPeek /\ pc' # "panic")
          => /\ pos' = pos /\ start' = start /\ rewind' = rewind
             /\ op'.r = RuneAt(pos)
     /\ (CallCanTake /\ pc' # "panic")
          => /\ pos' = pos /\ start' = start /\ rewind' = rewind
             /\ op'.b = ContainsRune(op'.chars, RuneAt(pos))]_vars

(***************************************************************************)
(* C6.  Accept(literal) never changes position, start, the rewind stack or *)
(* the token sink, and it returns true exactly when the unread text        *)
(* source[position:] begins with literal.                                  *)
(***************************************************************************)
C6_AcceptPure ==
  [][CallAccept
       => /\ pos' = pos /\ start' = start /\ rewind' = rewind
          /\ tokens' = tokens /\ closed' = closed
          /\ pc' # "panic" => (op'.b <=> BeginsWith(pos, op'.chars))]_vars

\* Accept found a non-empty literal while a token waits in the sink and the
\* rewind stack holds a rune.
C6_Witness ==
  /\ op.name = "Accept"
  /\ op.b
  /\ Len(op.chars) > 0
  /\ Len(tokens) > 0
  /\ Len(rewind) > 0

(***************************************************************************)
(* C7, as amended.  After k consecutive Next calls made from a commit      *)
(* point s, Current() is the source text from s up to the end of the k-th  *)
(* decoded rune (or the end of input); it is the concatenation of the      *)
(* runes Next returned when no returned rune is U+FFFD.                    *)
(***************************************************************************)
C7_CurrentIsConsumedText ==
  PureRun =>
    LET s == trail.ps[1]
        k == Len(trail.ps)
    IN  /\ start = s
        /\ current(Cur) = SubSeq(source, s + 1, RunEnd(s, k))
        /\ (\A i \in 1..k : trail.rs[i] # RuneError)
             => current(Cur) = Encoded(trail.rs)

\* Two Next calls from a commit point past the start of the source, over a
\* rune of more than one byte.
C7_Witness ==
  /\ PureRun
  /\ Len(trail.ps) >= 2
  /\ trail.ps[1] > 0
  /\ Len(current(Cur)) >= 2

(***************************************************************************)
(* C7, as claimed.  After k consecutive Next calls made from a commit      *)
(* point, Current() is exactly the concatenation of the runes Next         *)
(* returned.                                                               *)
(***************************************************************************)
C7_CurrentIsRunesReturned ==
  PureRun => current(Cur) = Encoded(trail.rs)

(***************************************************************************)
(* C8.  End of input is absorbing for Next: at position = len(source) Next *)
(* returns the EOF sentinel and leaves position and start unchanged, call  *)
(* after call; before the end of input Next returns a decoded rune, never  *)
(* the sentinel.                                                           *)
(***************************************************************************)
C8_EOFAbsorbing ==
  [][(CallNext /\ pc' # "panic")
       => IF pos = Len(source)
            THEN op'.r = EOFRune /\ pos' = pos /\ start' = start
            ELSE op'.r # EOFRune /\ op'.r >= 0 /\ pos' > pos]_vars

\* Next returned the sentinel twice in a row at the end of a non-empty source.
C8_Witness ==
  /\ op.name = "Next"
  /\ op.r = EOFRune
  /\ Len(source) > 0
  /\ pos = Len(source)
  /\ Len(rewind) >= 2
  /\ rewind[Len(rewind) - 1] = EOFRune

(***************************************************************************)
(* C9.  Emit(t) publishes exactly one token, of type t and with the value  *)
(* source[start:position] of the moment Emit was called; after it start =  *)
(* position, the rewind stack is empty and Current() is empty.  Ignore     *)
(* does the same to start and the stack and publishes nothing.  Nothing    *)
(* but Emit adds a token to the sink.                                      *)
(***************************************************************************)
C9_EmitPublishes ==
  [][/\ (CallEmit /\ pc' = "send")
          => /\ pending'[1].value = SubSeq(source, start + 1, pos)
             /\ pending'[1].type \in TokenTypes
     /\ EmitSend
          => /\ tokens' = Append(tokens, [type |-> pending[1].type,
                                          value |-> SubSeq(source, start + 1, pos)])
             /\ op'.t = pending[1].type
             /\ pos' = pos /\ start' = pos /\ rewind' = <<>>
             /\ SubSeq(source, start' + 1, pos') = <<>>
     /\ CallIgnore
          => /\ pos' = pos /\ start' = pos /\ rewind' = <<>>
             /\ tokens' = tokens
     /\ tokens' # tokens /\ ~NextToken
          => EmitSend /\ Len(tokens') = Len(tokens) + 1]_vars

\* The second Emit of a run published a non-empty token.
C9_Witness ==
  /\ op.name = "Emit"
  /\ Len(op.chars) > 0
  /\ Len(emitted) = 2
  /\ start = pos
  /\ rewind = <<>>

(***************************************************************************)
(* C10.  The consumer sees the tokens in the order they were emitted, each *)
(* once, none lost; NextToken returns isDone = true only after the driver  *)
(* reached the terminal marker and every emitted token was returned by an  *)
(* earlier NextToken; once it has returned isDone = true it does so ever   *)
(* after.                                                                  *)
(***************************************************************************)
C10_TokensInOrder ==
  /\ [](/\ emitted = received \o tokens
        /\ nt.isDone => (pc = "closed" /\ closed /\ received = emitted))
  /\ [][nt.isDone => nt'.isDone]_vars

\* The consumer of an asynchronous run got two different tokens, then isDone.
C10_Witness ==
  /\ mode = "async"
  /\ nt.isDone
  /\ Len(received) = 2
  /\ received[1] # received[2]

(***************************************************************************)
(* Lines and columns, counted from the source.                             *)
(***************************************************************************)
\* The offsets (1-based) of the newlines of the source.
Newlines == {i \in 1..Len(source) : source[i] = 10}

\* The 1-based number of the line byte offset p is on.
LineAt(p) == 1 + Cardinality({i \in Newlines : i <= p})

\* The byte offset at which the line of offset p starts.
LineStart(p) ==
  LET before == {i \in Newlines : i <= p}
  IN  IF before = {} THEN 0 ELSE CHOOSE i \in before : \A j \in before : j <= i

\* The number of lines of the source.
LineCount == 1 + Cardinality(Newlines)

\* The 1-based index of the k-th newline; 0 for k = 0, past the end of the
\* source for k = LineCount.
NthNewline(k) ==
  IF k = 0 THEN 0
  ELSE IF k >= LineCount THEN Len(source) + 1
  ELSE CHOOSE i \in Newlines : Cardinality({j \in Newlines : j <= i}) = k

\* The text of line i (1-based), without its newline.
LineText(i) == SubSeq(source, NthNewline(i - 1) + 1, NthNewline(i) - 1)

Max(a, b) == IF a >= b THEN a ELSE b

Min(a, b) == IF a <= b THEN a ELSE b

\* The text of the error Error records for message e at line l, column col.
Report(l, col, e) ==
  "lexer (pos=" \o ToString(l) \o "," \o ToString(col) \o "): " \o e

\* The capacity the channel is said to have: half the length of the source,
\* rounded down, and at least 1.
Capacity == Max(1, Len(source) \div 2)

(***************************************************************************)
(* C11.  Start and StartSync deliver the same: in either mode every token  *)
(* a state function hands to Emit gets to the consumer, whatever the       *)
(* number of tokens and the capacity of the channel, so an Emit is never   *)
(* waiting while neither the send nor a NextToken call can go ahead.       *)
(***************************************************************************)
C11_BothModesDeliver ==
  (pc = "send" /\ mode \in {"async", "sync"})
    => (ENABLED EmitSend \/ ENABLED NextToken)

(***************************************************************************)
(* C12.  StartSync runs the state functions to completion: its Emit calls  *)
(* all complete, also when there are more of them than the channel has     *)
(* capacity, and when it has returned the channel is closed and every      *)
(* token emitted is in it, in order.                                       *)
(***************************************************************************)
C12_StartSyncCompletes ==
  /\ (mode = "sync" /\ pc = "send") => Len(tokens) < Capacity
  /\ (mode = "sync" /\ pc = "closed") => (closed /\ received \o tokens = emitted)

C14_ErrAtEndOfStream ==
  /\ []((mode = "async" /\ nt.isDone) =>
          IF handled = <<>> THEN Err = <<>>
          ELSE \E l \in 1..LineCount, col \in 0..(Len(source) + 1) :
                 Err = <<Report(l, col, handled[Len(handled)].e)>>)
  /\ [][(mode = "async" /\ nt.isDone) => UNCHANGED <<Err, handled>>]_vars

\* The consumer got isDone after two Error calls with different messages.
C14_Witness ==
  /\ mode = "async"
  /\ nt.isDone
  /\ Len(handled) = 2
  /\ handled[1].e # handled[2].e
  /\ Err # <<>>

(***************************************************************************)
(* C15.  The position Error reports is 1-based in both coordinates: the    *)
(* line is 1 + the number of newlines before the cursor, the column is     *)
(* 1 + the number of bytes between the start of that line and the cursor,  *)
(* on the first line as on the later ones ("1" after one Next gives        *)
(* "lexer (pos=1,2): ...").                                                *)
(***************************************************************************)
C15_PositionOneBased ==
  [][(CallError /\ ErrorHandler) =>
       Err' = <<Report(LineAt(pos), 1 + (pos - LineStart(pos)),
                       handled'[Len(handled')].e)>>]_vars

(***************************************************************************)
(* C16.  For an error on line L of a source of n lines, PrettyError        *)
(* returns the lines max(1, L-3) .. L-1 with their numbers, then line L,   *)
(* then the caret line with the message, then the lines L+1 .. min(n, L+3) *)
(* with their numbers, and nothing else.                                   *)
(***************************************************************************)
C16_PrettyErrorWindow ==
  [][CallPrettyError =>
       LET L  == LineAt(pos)
           lo == Max(1, L - 3)
           hi == Min(LineCount, L + 3)
       IN  /\ Len(printed') = (hi - lo + 1) + 1
           /\ \A i \in lo..hi :
                LET k == IF i <= L THEN i - lo + 1 ELSE i - lo + 2
                IN  /\ ~printed'[k].caret
                    /\ printed'[k].n = i
                    /\ printed'[k].text = LineText(i)
           /\ printed'[L - lo + 2].caret
           /\ printed'[L - lo + 2].e \in Msgs]_vars

\* PrettyError on line 5 of 9: lines 2..4, line 5, the caret, lines 6..8.
C16_Witness ==
  /\ LineAt(pos) = 5
  /\ LineCount = 9
  /\ Len(printed) = 8
  /\ printed[1].n = 2
  /\ printed[5].caret
  /\ printed[8].n = 8

(***************************************************************************)
(* C17.  In the asynchronous mode under a fair schedule, when the state    *)
(* functions end after finitely many steps (and none panics in Error),     *)
(* the driver closes the channel and the consumer gets isDone = true,      *)
(* having received every token: producer and consumer do not deadlock,     *)
(* whatever the number of tokens and the capacity.                         *)
(***************************************************************************)
C17_AsyncEnds ==
  (mode = "async") ~> (closed /\ nt.isDone /\ received = emitted)

\* The consumer got isDone after more tokens than the channel holds.
C17_Witness ==
  /\ mode = "async"
  /\ closed
  /\ nt.isDone
  /\ Len(received) > Capacity

(***************************************************************************)
(* C18.  The channel holds at most max(1, len(source) / 2) tokens.  An     *)
(* Emit called while it is full does not complete, and commits nothing     *)
(* (start and the rune stack stay), until the consumer has taken a token;  *)
(* an Emit called while it has room can complete at once.                  *)
(***************************************************************************)
C18_BoundedQueue ==
  /\ [](Len(tokens) <= Capacity)
  /\ []((pc = "send" /\ mode # "none" /\ Len(tokens) < Capacity) => ENABLED EmitSend)
  /\ [][(pc = "send" /\ Len(tokens) = Capacity)
          => (pc' = "send" /\ UNCHANGED <<start, rewind, emitted>>)]_vars
  /\ [][(pc = "send" /\ pc' = "send") => UNCHANGED <<pos, start, rewind>>]_vars

\* An Emit of consumed text waits on a full channel.
C18_Witness ==
  /\ mode = "async"
  /\ pc = "send"
  /\ Len(tokens) = Capacity
  /\ start < pos
  /\ rewind # <<>>

(***************************************************************************)
(* C19.  Rewind never moves start and never takes the cursor before it, so *)
(* start never decreases.                                                  *)
(***************************************************************************)
C19_RetractKeepsStart ==
  [][CallRewind => (start' = start /\ pos' >= start)]_vars

(***************************************************************************)
(* C20.  The driver does not stop on Error: a call with a hook leaves the  *)
(* driver running and the channel as it was, the state function may go on  *)
(* emitting and its tokens are published in order, and the channel is      *)
(* closed only by the driver when a state function returned nil.           *)
(***************************************************************************)
C20_DriverGoesOnAfterError ==
  /\ [][(CallError /\ ErrorHandler) => UNCHANGED <<pc, closed, tokens, pending>>]_vars
  /\ [][closed' # closed => run]_vars
  /\ []((handled # <<>> /\ pc = "run") =>
          /\ ENABLED run
          /\ Len(emitted) < MaxEmit => ENABLED CallEmit)
  /\ []((handled # <<>> /\ pc = "send" /\ mode # "none" /\ Len(tokens) < Capacity)
          => ENABLED EmitSend)
  /\ [](emitted = received \o tokens)

\* A token emitted after an Error call was received; the run then ended.
C20_Witness ==
  /\ handled # <<>>
  /\ Len(received) > handled[1].emitted
  /\ closed
  /\ nt.isDone

(***************************************************************************)
(* C21.  Take ends on every source and every set, the empty set, a set     *)
(* with every rune of the source and a call at the end of input included:  *)
(* its loop calls Next at most once per unread rune and once more (each    *)
(* call of Next pushes one entry on the rune stack), and never reads past  *)
(* the end of the source.                                                  *)
(***************************************************************************)
C21_TakeEnds ==
  [][(CallTake /\ pc' # "panic") =>
       LET loop == TakeLoop(Next(Cur), op'.chars)
       IN  /\ Len(loop.rewind) - Len(rewind) <= UnreadRunes(pos) + 1
           /\ Len(loop.rewind) - Len(rewind) >= 1
           /\ pos' <= Len(source)]_vars

\* Take read a source of two runes or more up to its end.
C21_Witness ==
  /\ op.name = "Take"
  /\ op.chars = <<97, 195, 169>>
  /\ start = 0
  /\ pos = Len(source)
  /\ Len(rewind) >= 2

(***************************************************************************)
(* C22.  On a source that is valid UTF-8, in every state the operations    *)
(* reach, pos - start is the sum of the byte widths of the runes on the    *)
(* rune stack (EOFRune counting 0); so a Rewind retracts the width of the  *)
(* rune it pops and never goes below start, which stays, and after a Take  *)
(* that consumed k runes, k calls of Rewind, and no fewer, bring the       *)
(* cursor back to where the Take was called.                               *)
(***************************************************************************)
C22_StackMeasuresConsumed ==
  /\ [](ValidSource => pos - start = StackWidth(rewind))
  /\ [][(ValidSource /\ CallRewind /\ rewind # <<>>) =>
          /\ start' = start
          /\ pos' = pos - RuneWidth(rewind[Len(rewind)])
          /\ pos' >= start]_vars
  /\ [][(ValidSource /\ CallTake) =>
          LET k     == Len(rewind') - Len(rewind)
              after == [pos |-> pos', start |-> start', rewind |-> rewind']
          IN  /\ k >= 0
              /\ RewindTimes(after, k).pos = pos
              /\ \A j \in 0..(k - 1) : RewindTimes(after, j).pos > pos]_vars

\* A Take consumed the two runes of "\u00e9\u00e9" after an Emit.
C22_Witness ==
  /\ ValidSource
  /\ op.name = "Take"
  /\ Len(emitted) > 0
  /\ Len(rewind) = 2
  /\ pos - start = 4

(***************************************************************************)
(* C23.  The tokens emitted never overlap: the value of the i-th token is  *)
(* source[a_i:b_i] with b_i <= a_(i+1), and the values of the tokens and   *)
(* the ignored segments, in the order they were committed, make up         *)
(* source[0:start].                                                        *)
(***************************************************************************)
C23_TokensDoNotOverlap ==
  /\ Len(commits.spans) = Len(emitted)
  /\ \A i \in 1..Len(commits.spans) :
       LET a == commits.spans[i][1]
           b == commits.spans[i][2]
       IN  /\ 0 <= a /\ a <= b /\ b <= Len(source)
           /\ emitted[i].value = SubSeq(source, a + 1, b)
           /\ i < Len(commits.spans) => b <= commits.spans[i + 1][1]
  /\ commits.text = SubSeq(source, 1, start)

(***************************************************************************)
(* C24.  With one call of Start or StartSync, the channel is closed at     *)
(* most once, by the driver and only when the last state function has      *)
(* returned nil: from then on it stays closed, no Emit is under way and    *)
(* none begins, and no token is put into the channel; the consumer only    *)
(* takes tokens out, in any interleaving.                                  *)
(***************************************************************************)
C24_ClosedOnceAtTheEnd ==
  /\ [](closed => (pc = "closed" /\ mode # "none" /\ pending = <<>>))
  /\ [][closed' # closed => (run /\ ~closed /\ closed' /\ pending = <<>>)]_vars
  /\ [][closed => /\ closed'
                  /\ emitted' = emitted
                  /\ pending' = <<>>
                  /\ pc' = "closed"
                  /\ \/ tokens' = tokens
                     \/ tokens # <<>> /\ tokens' = Tail(tokens)]_vars
  /\ [][mode # "none" => mode' = mode]_vars

\* The consumer took a token before the close and finds another after it.
C24_Witness ==
  /\ mode = "async"
  /\ closed
  /\ Len(received) = 1
  /\ Len(tokens) = 1
  /\ ~nt.isDone

=============================================================================
